---- MODULE Spec2Model ----
(***************************************************************************)
(* Model of the WebSocket ConnectionManager of fullon_ohlcv_api            *)
(* (src/src/fullon_ohlcv_api/routers/websocket.py) and of the endpoint     *)
(* tasks that drive it.  One cooperative task per connection; a task runs  *)
(* atomically from one await to the next, so every action below is "resume *)
(* from the await the task is suspended in, run to the next await".        *)
(***************************************************************************)
EXTENDS Integers, Sequences, FiniteSets, TLC

\* Bounds of the model: number of WebSocket objects and of subscription keys.
NumConns == 2
NumKeys == 2
\* Bound on the number of frames the clients send, all connections together.
MaxFrames == 2
\* Bound on the number of subscriptions the registry holds when the manager
\* is driven method by method.
MaxSubs == 3
\* Bounds on the text of a subscription request: length of the exchange and
\* symbol fields, and number of subscriptions requested at one time.
MaxStrLen == 2
MaxKeySubs == 2
\* Bounds on an HTTP request: the limit parameter, the instants of a range
\* (minutes after an epoch) and the number of rows the storage returns.
MaxLimit == 2
MaxTime == 1
MaxRows == 2

Conns == 1..NumConns
Keys == 1..NumKeys

\* Outcomes of an awaited transport send (websocket.send_text).
SendOutcomes == {"ok", "RuntimeError", "WebSocketDisconnect", "Exception"}
\* Exceptions websocket.receive_text can raise into the endpoint's outer try.
RecvErrors == {"WebSocketDisconnect", "RuntimeError:not connected",
               "RuntimeError:other", "Exception"}
\* Text frames that are answered with an error frame: text that is not JSON,
\* JSON that is not an object (message.get raises AttributeError), an object
\* whose action is unknown or missing, a subscribe or unsubscribe object with
\* a missing or empty field.
BadFrames == {"invalid_json", "not_object", "unknown_action", "missing_fields"}
\* The awaits in which the send of an error frame for such a text is awaited.
ErrorSites == {"err_json", "err_handler", "err_action", "err_fields",
               "err_subscribe"}

VARIABLES
    active_connections,   \* ConnectionManager.active_connections : list
    subscriptions,        \* ConnectionManager.subscriptions : dict key -> list
    client_state,         \* websocket.client_state of every WebSocket
    pc,                   \* the await each endpoint task is suspended in
    subscription_key,     \* local of handle_subscribe / broadcast (<<>> = unset)
    it_idx,               \* list iterator of the broadcast loop: next index
    it_live,              \* the iterated list object is still the dict's value
    bc_websocket,         \* loop variable of the broadcast: pending send target
    disconnected_clients, \* local list of broadcast_to_subscription
    bc_sent,             \* history: sends issued by the running broadcast
    bc_stayed,            \* history: subscribed to the key during all of it
    last,                 \* history: the operation performed by the last step
    nframes,              \* history: number of frames received so far
    nkeys,                \* history: number of distinct keys named so far
    subscribed_as,        \* history: (websocket, fields) of the subscriptions
                          \* requested by subscribe messages and not revoked
    http,                 \* the HTTP request being served: its parameters,
                          \* the handler's locals, the await it is suspended
                          \* in and the calls made on the storage layer
    dep,                  \* a repository dependency of dependencies/database.py
                          \* serving one request: its arguments, the await
                          \* it is suspended in, the repository it made
    sdk                   \* one call of the SDK's stream_ohlcv: the await it
                          \* is suspended in, the frame it read last, what it
                          \* yielded and what it raised to the caller

vars == <<active_connections, subscriptions, client_state, pc,
          subscription_key, it_idx, it_live, bc_websocket,
          disconnected_clients, bc_sent, bc_stayed, last,
          nframes, nkeys, subscribed_as, http, dep, sdk>>

----------------------------------------------------------------------------
\* Python list and dict primitives

Range(s) == {s[i] : i \in 1..Len(s)}

Count(s, x) == Cardinality({i \in 1..Len(s) : s[i] = x})

RemoveFirst(l, x) ==
    LET i == CHOOSE j \in 1..Len(l) :
                 l[j] = x /\ \A m \in 1..(j - 1) : l[m] # x
    IN  SubSeq(l, 1, i - 1) \o SubSeq(l, i + 1, Len(l))

\* list.remove(x): removes the first occurrence, ValueError when absent
PyRemove(l, x) ==
    IF x \in Range(l)
    THEN [val |-> RemoveFirst(l, x), exc |-> "none"]
    ELSE [val |-> l, exc |-> "ValueError"]

DictSet(d, k, v) == [x \in (DOMAIN d) \cup {k} |-> IF x = k THEN v ELSE d[x]]

DictDel(d, k) == [x \in (DOMAIN d) \ {k} |-> d[x]]

EmptyDict == [x \in {} |-> <<>>]

\* the list stored for k, <<>> when the dict has no entry
Lookup(d, k) == IF k \in DOMAIN d THEN d[k] ELSE <<>>

----------------------------------------------------------------------------
\* ConnectionManager methods as functions of the registry

\* subscribe without the "if websocket not in" test
subscribe_always_appends(subs, ws, k) ==
    LET s1 == IF k \notin DOMAIN subs THEN DictSet(subs, k, <<>>) ELSE subs
    IN  DictSet(s1, k, Append(s1[k], ws))

\* ConnectionManager.subscribe
subscribe(subs, ws, k) ==
    LET s1 == IF k \notin DOMAIN subs THEN DictSet(subs, k, <<>>) ELSE subs
    IN  IF ws \notin Range(s1[k])
        THEN DictSet(s1, k, Append(s1[k], ws))
        ELSE s1

\* unsubscribe without the "del" of a key whose list became empty
unsubscribe_keeps_empty_key(subs, ws, k) ==
    IF k \in DOMAIN subs /\ ws \in Range(subs[k])
    THEN LET r == PyRemove(subs[k], ws)
         IN  [subs |-> DictSet(subs, k, r.val), exc |-> r.exc]
    ELSE [subs |-> subs, exc |-> "none"]

\* ConnectionManager.unsubscribe
unsubscribe(subs, ws, k) ==
    IF k \in DOMAIN subs /\ ws \in Range(subs[k])
    THEN LET r == PyRemove(subs[k], ws)
         IN  [subs |-> IF r.val = <<>> THEN DictDel(subs, k)
                       ELSE DictSet(subs, k, r.val),
              exc |-> r.exc]
    ELSE [subs |-> subs, exc |-> "none"]

\* disconnect that stops after the first key it removed the websocket from
disconnect_first_key_only(ac, subs, ws) ==
    LET a == IF ws \in Range(ac) THEN PyRemove(ac, ws)
             ELSE [val |-> ac, exc |-> "none"]
        held == {k \in DOMAIN subs : ws \in Range(subs[k])}
    IN  IF held = {}
        THEN [ac |-> a.val, subs |-> subs, exc |-> a.exc]
        ELSE LET k1 == CHOOSE k \in held : \A j \in held : k <= j
                 l == RemoveFirst(subs[k1], ws)
             IN  [ac |-> a.val,
                  subs |-> IF l = <<>> THEN DictDel(subs, k1)
                           ELSE DictSet(subs, k1, l),
                  exc |-> a.exc]

\* disconnect without the "if websocket in self.active_connections" test
disconnect_unguarded_remove(ac, subs, ws) ==
    LET a == PyRemove(ac, ws)
        removed == [k \in DOMAIN subs |->
                        IF ws \in Range(subs[k])
                        THEN RemoveFirst(subs[k], ws) ELSE subs[k]]
        kept == {k \in DOMAIN subs :
                     ~(ws \in Range(subs[k]) /\ removed[k] = <<>>)}
    IN  IF a.exc # "none"
        THEN [ac |-> ac, subs |-> subs, exc |-> a.exc]
        ELSE [ac |-> a.val, subs |-> [k \in kept |-> removed[k]],
              exc |-> a.exc]

\* ConnectionManager.disconnect
disconnect(ac, subs, ws) ==
    LET a == IF ws \in Range(ac) THEN PyRemove(ac, ws)
             ELSE [val |-> ac, exc |-> "none"]
        removed == [k \in DOMAIN subs |->
                        IF ws \in Range(subs[k])
                        THEN RemoveFirst(subs[k], ws) ELSE subs[k]]
        kept == {k \in DOMAIN subs :
                     ~(ws \in Range(subs[k]) /\ removed[k] = <<>>)}
    IN  [ac |-> a.val, subs |-> [k \in kept |-> removed[k]], exc |-> a.exc]

\* send_personal_message with the client_state test inverted
send_personal_message_inverted_state_test(state, outcome) ==
    IF state = "CONNECTED"
    THEN [attempted |-> FALSE, delivered |-> FALSE, exc |-> "none"]
    ELSE [attempted |-> TRUE, delivered |-> outcome = "ok", exc |-> "none"]

\* send_personal_message without the final "except Exception"
send_personal_message_narrow_except(state, outcome) ==
    IF state # "CONNECTED"
    THEN [attempted |-> FALSE, delivered |-> FALSE, exc |-> "none"]
    ELSE IF outcome = "ok"
    THEN [attempted |-> TRUE, delivered |-> TRUE, exc |-> "none"]
    ELSE IF outcome \in {"RuntimeError", "WebSocketDisconnect"}
    THEN [attempted |-> TRUE, delivered |-> FALSE, exc |-> "none"]
    ELSE [attempted |-> TRUE, delivered |-> FALSE, exc |-> outcome]

\* ConnectionManager.send_personal_message, given the outcome the transport
\* send would have
send_personal_message(state, outcome) ==
    IF state # "CONNECTED"
    THEN [attempted |-> FALSE, delivered |-> FALSE, exc |-> "none"]
    ELSE IF outcome = "ok"
    THEN [attempted |-> TRUE, delivered |-> TRUE, exc |-> "none"]
    ELSE IF outcome \in {"RuntimeError", "WebSocketDisconnect"}
    THEN [attempted |-> TRUE, delivered |-> FALSE, exc |-> "none"]
    ELSE [attempted |-> TRUE, delivered |-> FALSE, exc |-> "none"]

\* the try/except around one send of the broadcast loop: the new
\* disconnected_clients list and the exception that leaves the loop
broadcast_send(failed, ws, outcome) ==
    IF outcome = "ok"
    THEN [failed |-> failed, exc |-> "none"]
    ELSE [failed |-> Append(failed, ws), exc |-> "none"]

\* broadcast without the cleanup of the clients whose send failed
cleanup_skipped(ac, subs, failed) ==
    [ac |-> ac, subs |-> subs, exc |-> "none"]

\* "for websocket in disconnected_clients: self.disconnect(websocket)"
RECURSIVE cleanup(_, _, _)
cleanup(ac, subs, failed) ==
    IF failed = <<>>
    THEN [ac |-> ac, subs |-> subs, exc |-> "none"]
    ELSE LET r == disconnect(ac, subs, Head(failed))
         IN  IF r.exc # "none" THEN r
             ELSE cleanup(r.ac, r.subs, Tail(failed))

\* next() of the list iterator of the broadcast loop: the iterator keeps the
\* list object and an index; a list deleted from the dict was empty
iter_has_next(subs, k, idx, live) == live /\ idx < Len(Lookup(subs, k))


\* the outer try/except of websocket_ohlcv_endpoint for an exception e that
\* leaves the receive loop: the registry after it and where the task ends
endpoint_except(ac, subs, ws, e) ==
    IF e = "RuntimeError:other"
    THEN [ac |-> ac, subs |-> subs, pc |-> "raised"]
    ELSE LET r == disconnect(ac, subs, ws)
         IN  [ac |-> r.ac, subs |-> r.subs,
              pc |-> IF r.exc = "none" THEN "closed" ELSE "raised"]

\* the loop of broadcast_to_subscription when no other task runs during its
\* sends; bad is the set of websockets whose send_text raises
RECURSIVE broadcast_loop(_, _, _, _, _, _)
broadcast_loop(subs, k, idx, failed, sent, bad) ==
    IF iter_has_next(subs, k, idx, TRUE)
    THEN LET ws == subs[k][idx + 1]
             r == broadcast_send(failed, ws,
                                 IF ws \in bad THEN "Exception" ELSE "ok")
         IN  IF r.exc # "none"
             THEN [failed |-> r.failed, sent |-> Append(sent, ws),
                   exc |-> r.exc]
             ELSE broadcast_loop(subs, k, idx + 1, r.failed,
                                 Append(sent, ws), bad)
    ELSE [failed |-> failed, sent |-> sent, exc |-> "none"]

\* ConnectionManager.broadcast_to_subscription run to completion
broadcast_to_subscription(ac, subs, k, bad) ==
    IF k \notin DOMAIN subs
    THEN [ac |-> ac, subs |-> subs, failed |-> <<>>, sent |-> <<>>,
          exc |-> "none"]
    ELSE LET l == broadcast_loop(subs, k, 0, <<>>, <<>>, bad)
             r == IF l.exc = "none" THEN cleanup(ac, subs, l.failed)
                  ELSE [ac |-> ac, subs |-> subs, exc |-> l.exc]
         IN  [ac |-> r.ac, subs |-> r.subs, failed |-> l.failed,
              sent |-> l.sent, exc |-> r.exc]

----------------------------------------------------------------------------
\* State

\* locals of a task that is not inside broadcast_to_subscription
IdleLocals ==
    [key |-> <<>>, idx |-> 0, live |-> FALSE, ws |-> <<>>, failed |-> <<>>,
     sent |-> <<>>, stayed |-> {}]

HeldKeys(subs, ws) == {k \in DOMAIN subs : ws \in Range(subs[k])}

\* history record of one operation: who ran what, the exception that left
\* it, and for a broadcast the sends it made
LastOp(op, c, key, exc) ==
    [op |-> op, conn |-> c, key |-> key, exc |-> exc, failed |-> {},
     stayed |-> {}, sent |-> <<>>, held |-> {}, noop |-> FALSE]

\* an instant: calendar months and minutes after an epoch, with or without
\* timezone information
Instant(months, minutes, aware) ==
    [months |-> months, minutes |-> minutes, aware |-> aware]

\* no HTTP request is being served
NoRequest ==
    [routers |-> <<>>, path |-> "none",
     handler |-> "none", pc |-> "idle", timeframe |-> "", limit |-> 0,
     start_time |-> Instant(0, 0, TRUE), end_time |-> Instant(0, 0, TRUE),
     compression |-> 0, period |-> "", now |-> <<>>, fromdate |-> <<>>,
     todate |-> <<>>,
     ohlcv_data |-> <<>>, candles_data |-> <<>>, calls |-> <<>>,
     status_code |-> 0]

\* no repository dependency is running
NoDependency ==
    [kind |-> "none", pc |-> "idle", exchange |-> "", symbol |-> "",
     repo |-> <<>>, calls |-> <<>>, read |-> "none", raised |-> "none",
     thrown |-> FALSE, pending |-> "none", exit |-> "none",
     status_code |-> 0, detail |-> ""]

\* stream_ohlcv has not been called
NoStream ==
    [pc |-> "idle", timeframe |-> "", websocket |-> FALSE,
     message |-> <<>>, yielded |-> 0, raised |-> "none"]

\* steps of the endpoint tasks that leave no history
Quiet == LastOp("step", 1, <<>>, "none")

InLoop(t) == pc[t] = "bc_send"

\* effect of a registry change on the broadcasts of the other tasks that are
\* suspended in a send: their iterators and their histories
LiveAfter(subsNew) ==
    [t \in Conns |-> it_live[t] /\
                     (InLoop(t) => subscription_key[t][1] \in DOMAIN subsNew)]

StayedAfter(subsNew) ==
    [t \in Conns |-> IF InLoop(t)
                     THEN bc_stayed[t] \cap
                          Range(Lookup(subsNew, subscription_key[t][1]))
                     ELSE bc_stayed[t]]

\* one step of task c: the registry, the task's position and locals after it
Assign(c, acNew, subsNew, pcNew, L, lastNew) ==
    /\ active_connections' = acNew
    /\ subscriptions' = subsNew
    /\ pc' = [pc EXCEPT ![c] = pcNew]
    /\ subscription_key' = [subscription_key EXCEPT ![c] = L.key]
    /\ it_idx' = [it_idx EXCEPT ![c] = L.idx]
    /\ it_live' = [LiveAfter(subsNew) EXCEPT ![c] = L.live]
    /\ bc_websocket' = [bc_websocket EXCEPT ![c] = L.ws]
    /\ disconnected_clients' = [disconnected_clients EXCEPT ![c] = L.failed]
    /\ bc_sent' = [bc_sent EXCEPT ![c] = L.sent]
    /\ bc_stayed' = [StayedAfter(subsNew) EXCEPT ![c] = L.stayed]
    /\ last' = lastNew
    /\ UNCHANGED <<subscribed_as, http, dep, sdk>>

Init ==
    /\ active_connections = <<>>
    /\ subscriptions = EmptyDict
    /\ client_state = [c \in Conns |-> "CONNECTING"]
    /\ pc = [c \in Conns |-> "new"]
    /\ subscription_key = [c \in Conns |-> <<>>]
    /\ it_idx = [c \in Conns |-> 0]
    /\ it_live = [c \in Conns |-> FALSE]
    /\ bc_websocket = [c \in Conns |-> <<>>]
    /\ disconnected_clients = [c \in Conns |-> <<>>]
    /\ bc_sent = [c \in Conns |-> <<>>]
    /\ bc_stayed = [c \in Conns |-> {}]
    /\ last = LastOp("init", 1, <<>>, "none")
    /\ nframes = 0
    /\ nkeys = 0
    /\ subscribed_as = {}
    /\ http = NoRequest
    /\ dep = NoDependency
    /\ sdk = NoStream

\* Keys are numbered in the order in which the callers first name them.
NameKey(k) ==
    /\ k <= nkeys + 1
    /\ nkeys' = IF k > nkeys THEN k ELSE nkeys

\* where a task goes when it starts send_personal_message: it suspends in
\* send_text only when the client state is CONNECTED
personal_pc(state, suspended, skipped) ==
    IF send_personal_message(state, "ok").attempted THEN suspended ELSE skipped

----------------------------------------------------------------------------
\* The broadcast loop of broadcast_to_subscription, from the point where the
\* iterator is asked for the next subscriber: either the task suspends in the
\* next send_text, or the loop is over, the failed clients are disconnected
\* and the task is back in receive_text (or, when the cleanup raised, in the
\* error reply of handle_subscribe).
LoopNext(c, k, acNow, subsNow, L) ==
    IF iter_has_next(subsNow, k, L.idx, L.live)
    THEN Assign(c, acNow, subsNow, "bc_send",
                [L EXCEPT !.key = <<k>>, !.idx = L.idx + 1,
                          !.ws = <<subsNow[k][L.idx + 1]>>],
                Quiet)
    ELSE LET r == cleanup(acNow, subsNow, L.failed)
         IN  Assign(c, r.ac, r.subs,
                    IF r.exc = "none" THEN "recv"
                    ELSE personal_pc(client_state[c], "reply", "recv"),
                    IdleLocals,
                    [LastOp("broadcast", c, <<k>>, r.exc) EXCEPT
                        !.failed = Range(L.failed), !.stayed = L.stayed,
                        !.sent = L.sent,
                        !.held = UNION {HeldKeys(subsNow, w) :
                                           w \in Range(L.failed)}])

\* entry of broadcast_to_subscription: "if key not in subscriptions: return",
\* then iter() on the key's list
BroadcastEnter(c, k, acNow, subsNow) ==
    IF k \notin DOMAIN subsNow
    THEN Assign(c, acNow, subsNow, "recv", IdleLocals, Quiet)
    ELSE LoopNext(c, k, acNow, subsNow,
                  [IdleLocals EXCEPT !.live = TRUE,
                                     !.stayed = Range(subsNow[k])])

----------------------------------------------------------------------------
\* Actions of the endpoint tasks (websocket_ohlcv_endpoint, one per client)

\* manager.connect: accept() succeeded, the websocket is registered.
\* WebSocket objects are numbered in the order in which they are accepted.
Connect(c) ==
    /\ pc[c] = "new"
    /\ \A d \in 1..(c - 1) : pc[d] # "new"
    /\ client_state' = [client_state EXCEPT ![c] = "CONNECTED"]
    /\ UNCHANGED <<nframes, nkeys>>
    /\ Assign(c, Append(active_connections, c), subscriptions, "recv",
              IdleLocals, Quiet)

\* receive_text returned a valid subscribe message for key k:
\* handle_subscribe registers the subscription and starts the confirmation
RecvSubscribe(c, k) ==
    /\ pc[c] = "recv"
    /\ nframes < MaxFrames
    /\ nframes' = nframes + 1
    /\ NameKey(k)
    /\ UNCHANGED client_state
    /\ LET subsNew == subscribe(subscriptions, c, k)
       IN  IF send_personal_message(client_state[c], "ok").attempted
           THEN Assign(c, active_connections, subsNew, "confirm",
                       [IdleLocals EXCEPT !.key = <<k>>], Quiet)
           ELSE BroadcastEnter(c, k, active_connections, subsNew)

\* the send of the confirmation is over; send_sample_ohlcv_update starts the
\* broadcast for the key
ConfirmDone(c, outcome) ==
    /\ pc[c] = "confirm"
    /\ UNCHANGED <<client_state, nframes, nkeys>>
    /\ LET r == send_personal_message(client_state[c], outcome)
           k == subscription_key[c][1]
       IN  IF r.exc = "none"
           THEN BroadcastEnter(c, k, active_connections, subscriptions)
           ELSE Assign(c, active_connections, subscriptions,
                       personal_pc(client_state[c], "reply", "recv"),
                       IdleLocals, Quiet)

\* one send_text of the broadcast loop is over
BroadcastSendDone(c, outcome) ==
    /\ pc[c] = "bc_send"
    /\ UNCHANGED <<client_state, nframes, nkeys>>
    /\ LET w == bc_websocket[c][1]
           k == subscription_key[c][1]
           r == broadcast_send(disconnected_clients[c], w, outcome)
           L == [key |-> <<k>>, idx |-> it_idx[c], live |-> it_live[c],
                 ws |-> <<w>>, failed |-> r.failed,
                 sent |-> Append(bc_sent[c], w),
                 stayed |-> bc_stayed[c]]
       IN  IF r.exc = "none"
           THEN LoopNext(c, k, active_connections, subscriptions, L)
           ELSE Assign(c, active_connections, subscriptions,
                       personal_pc(client_state[c], "reply", "recv"),
                       IdleLocals,
                       [LastOp("broadcast", c, <<k>>, r.exc) EXCEPT
                           !.failed = Range(L.failed), !.stayed = L.stayed,
                           !.sent = L.sent])

\* receive_text returned a valid unsubscribe message for key k
RecvUnsubscribe(c, k) ==
    /\ pc[c] = "recv"
    /\ nframes < MaxFrames
    /\ nframes' = nframes + 1
    /\ NameKey(k)
    /\ UNCHANGED client_state
    /\ LET r == unsubscribe(subscriptions, c, k)
       IN  Assign(c, active_connections, r.subs,
                  personal_pc(client_state[c], "reply", "recv"), IdleLocals,
                  Quiet)

\* json.loads and the dispatch on the action with an uncaught JSONDecodeError:
\* it reaches the outer "except Exception" of the endpoint, which disconnects
frame_site_json_error_uncaught(frame) ==
    IF frame = "invalid_json" THEN "closed"
    ELSE IF frame = "not_object" THEN "err_handler"
    ELSE IF frame = "unknown_action" THEN "err_action"
    ELSE "err_fields"

\* json.loads and the dispatch on the action for a text that gets no
\* subscription change: the await that sends its error frame
frame_site(frame) ==
    IF frame = "invalid_json" THEN "err_json"
    ELSE IF frame = "not_object" THEN "err_handler"
    ELSE IF frame = "unknown_action" THEN "err_action"
    ELSE "err_fields"

\* receive_text returned a text that is answered with an error frame only
RecvBad(c, frame) ==
    /\ pc[c] = "recv"
    /\ nframes < MaxFrames
    /\ nframes' = nframes + 1
    /\ UNCHANGED <<client_state, nkeys>>
    /\ LET site == frame_site(frame)
       IN  IF site \in ErrorSites
           THEN Assign(c, active_connections, subscriptions,
                       personal_pc(client_state[c], site, "recv"),
                       IdleLocals, Quiet)
           ELSE LET h == endpoint_except(active_connections, subscriptions,
                                         c, "Exception")
                IN  Assign(c, h.ac, h.subs, h.pc, IdleLocals, Quiet)

\* the four "assert isinstance(..., str)" of handle_subscribe: AssertionError
\* for a field that is not a string, when the interpreter checks assertions
\* (python -O removes assert statements)
field_asserts(all_strings, assertions) ==
    IF ~all_strings /\ assertions THEN "AssertionError" ELSE "none"

\* receive_text returned a subscribe message whose four fields are truthy
\* and one of them is not a string; k is the key the f-string gives
RecvNonString(c, k, assertions) ==
    /\ pc[c] = "recv"
    /\ nframes < MaxFrames
    /\ nframes' = nframes + 1
    /\ UNCHANGED client_state
    /\ IF field_asserts(FALSE, assertions) # "none"
       THEN /\ k = 1
            /\ UNCHANGED nkeys
            /\ Assign(c, active_connections, subscriptions,
                      personal_pc(client_state[c], "err_subscribe", "recv"),
                      IdleLocals, Quiet)
       ELSE /\ NameKey(k)
            /\ LET subsNew == subscribe(subscriptions, c, k)
               IN  IF send_personal_message(client_state[c], "ok").attempted
                   THEN Assign(c, active_connections, subsNew, "confirm",
                               [IdleLocals EXCEPT !.key = <<k>>], Quiet)
                   ELSE BroadcastEnter(c, k, active_connections, subsNew)

\* the send of an unsubscription confirmation or of an error frame is over
ReplyDone(c, outcome) ==
    /\ pc[c] \in {"reply"} \cup ErrorSites
    /\ UNCHANGED <<client_state, nframes, nkeys>>
    /\ LET r == send_personal_message(client_state[c], outcome)
       IN  IF r.exc = "none"
           THEN Assign(c, active_connections, subscriptions, "recv",
                       IdleLocals,
                       IF pc[c] \in ErrorSites
                       THEN LastOp("error_reply", c, <<>>, "none")
                       ELSE Quiet)
           ELSE LET h == endpoint_except(active_connections, subscriptions,
                                         c, r.exc)
                IN  Assign(c, h.ac, h.subs, h.pc, IdleLocals, Quiet)

\* receive_text raised e: the receive loop is left through the outer handlers
RecvError(c, e) ==
    /\ pc[c] = "recv"
    /\ UNCHANGED <<client_state, nframes, nkeys>>
    /\ LET h == endpoint_except(active_connections, subscriptions, c, e)
       IN  Assign(c, h.ac, h.subs, h.pc, IdleLocals,
                  Quiet)

Next ==
    \/ \E c \in Conns : Connect(c)
    \/ \E c \in Conns, k \in Keys : RecvSubscribe(c, k)
    \/ \E c \in Conns, o \in SendOutcomes : ConfirmDone(c, o)
    \/ \E c \in Conns, o \in SendOutcomes : BroadcastSendDone(c, o)
    \/ \E c \in Conns, k \in Keys : RecvUnsubscribe(c, k)
    \/ \E c \in Conns, f \in BadFrames : RecvBad(c, f)
    \/ \E c \in Conns, k \in Keys, a \in BOOLEAN : RecvNonString(c, k, a)
    \/ \E c \in Conns, o \in SendOutcomes : ReplyDone(c, o)
    \/ \E c \in Conns, e \in RecvErrors : RecvError(c, e)

Spec == Init /\ [][Next]_vars

TypeOK ==
    /\ Range(active_connections) \subseteq Conns
    /\ DOMAIN subscriptions \subseteq Keys
    /\ \A k \in DOMAIN subscriptions : Range(subscriptions[k]) \subseteq Conns

----------------------------------------------------------------------------
\* The ConnectionManager driven method by method, every call running to
\* completion before the next one starts (get_connection_manager() hands the
\* manager to other callers; the transports are whatever the caller passes).

TaskVars == <<pc, subscription_key, it_idx, it_live, bc_websocket,
              disconnected_clients, bc_sent, bc_stayed, nframes,
              subscribed_as, http, dep, sdk>>

\* number of subscriptions the registry holds
NumSubs(subs) ==
    Cardinality(UNION {{<<k, i>> : i \in 1..Len(subs[k])} : k \in DOMAIN subs})

\* no call is under way: the caller is about to make its next call
Idle == last.op \in {"init", "step"}

\* manager.connect(ws) on a websocket that has not been accepted yet
MConnect(c) ==
    /\ Idle
    /\ client_state[c] = "CONNECTING"
    /\ \A d \in 1..(c - 1) : client_state[d] # "CONNECTING"
    /\ active_connections' = Append(active_connections, c)
    /\ client_state' = [client_state EXCEPT ![c] = "CONNECTED"]
    /\ last' = LastOp("connect", c, <<>>, "none")
    /\ UNCHANGED <<subscriptions, TaskVars, nkeys>>

\* the client of ws goes away: its client_state is no longer CONNECTED
MClose(c) ==
    /\ Idle
    /\ client_state[c] = "CONNECTED"
    /\ client_state' = [client_state EXCEPT ![c] = "DISCONNECTED"]
    /\ last' = LastOp("close", c, <<>>, "none")
    /\ UNCHANGED <<active_connections, subscriptions, TaskVars, nkeys>>

\* manager.subscribe(ws, key), for a websocket that went through connect
MSubscribe(c, k) ==
    /\ Idle
    /\ client_state[c] # "CONNECTING"
    /\ NameKey(k)
    /\ NumSubs(subscribe(subscriptions, c, k)) <= MaxSubs
    /\ subscriptions' = subscribe(subscriptions, c, k)
    /\ last' = [LastOp("subscribe", c, <<k>>, "none") EXCEPT
                   !.noop = c \in Range(Lookup(subscriptions, k))]
    /\ UNCHANGED <<active_connections, client_state, TaskVars>>

\* manager.unsubscribe(ws, key)
MUnsubscribe(c, k) ==
    /\ Idle
    /\ NameKey(k)
    /\ LET r == unsubscribe(subscriptions, c, k)
       IN  /\ subscriptions' = r.subs
           /\ last' = [LastOp("unsubscribe", c, <<k>>, r.exc) EXCEPT
                          !.noop = c \notin Range(Lookup(subscriptions, k))]
    /\ UNCHANGED <<active_connections, client_state, TaskVars>>

\* manager.disconnect(ws)
MDisconnect(c) ==
    /\ Idle
    /\ LET r == disconnect(active_connections, subscriptions, c)
       IN  /\ active_connections' = r.ac
           /\ subscriptions' = r.subs
           /\ last' = [LastOp("disconnect", c, <<>>, r.exc) EXCEPT
                          !.held = HeldKeys(subscriptions, c),
                          !.noop = /\ c \notin Range(active_connections)
                                   /\ HeldKeys(subscriptions, c) = {}]
    /\ UNCHANGED <<client_state, TaskVars, nkeys>>

\* manager.send_personal_message(message, ws); outcome is what the
\* transport's send_text does when it is called
MSendPersonal(c, outcome) ==
    /\ Idle
    /\ LET r == send_personal_message(client_state[c], outcome)
       IN  last' = [LastOp("send_personal", c, <<>>, r.exc) EXCEPT
                       !.sent = IF r.attempted THEN <<c>> ELSE <<>>,
                       !.failed = IF r.attempted /\ ~r.delivered
                                  THEN {c} ELSE {}]
    /\ UNCHANGED <<active_connections, subscriptions, client_state, TaskVars,
                   nkeys>>

\* manager.broadcast_to_subscription(message, key); bad are the websockets
\* whose send_text raises
MBroadcast(k) ==
    /\ Idle
    /\ NameKey(k)
    /\ \E bad \in SUBSET Range(Lookup(subscriptions, k)) :
         LET r == broadcast_to_subscription(active_connections, subscriptions,
                                            k, bad)
         IN  /\ active_connections' = r.ac
             /\ subscriptions' = r.subs
             /\ last' = [LastOp("broadcast", 1, <<k>>, r.exc) EXCEPT
                            !.failed = Range(r.failed),
                            !.stayed = Range(Lookup(subscriptions, k)),
                            !.sent = r.sent,
                            !.held = UNION {HeldKeys(subscriptions, w) :
                                               w \in Range(r.failed)}]
    /\ UNCHANGED <<client_state, TaskVars>>

\* the call has returned to its caller
MReturn ==
    /\ ~Idle
    /\ last' = Quiet
    /\ UNCHANGED <<active_connections, subscriptions, client_state, TaskVars,
                   nkeys>>

NextManager ==
    \/ \E c \in Conns : MConnect(c)
    \/ \E c \in Conns : MClose(c)
    \/ \E c \in Conns, k \in Keys : MSubscribe(c, k)
    \/ \E c \in Conns, k \in Keys : MUnsubscribe(c, k)
    \/ \E c \in Conns : MDisconnect(c)
    \/ \E c \in Conns, o \in SendOutcomes : MSendPersonal(c, o)
    \/ \E k \in Keys : MBroadcast(k)
    \/ MReturn

SpecManager == Init /\ [][NextManager]_vars

----------------------------------------------------------------------------
\* The subscription key of handle_subscribe and handle_unsubscribe.  The four
\* fields of a request are JSON strings, modelled as sequences of characters;
\* every handler runs to completion before the next message arrives and the
\* transports deliver every frame.

\* characters of a field: the separator of the key and one other character
KeyChars == {"a", ":"}

\* non-empty strings ("if not all([...])" rejects empty fields)
Strs(n) == UNION {[1..m -> KeyChars] : m \in 1..n}

\* the values of TimeframeEnum
TimeframeEnum ==
    {<<"1", "m">>, <<"5", "m">>, <<"1", "5", "m">>, <<"3", "0", "m">>,
     <<"1", "h">>, <<"4", "h">>, <<"1", "d">>, <<"1", "w">>}

\* the values of the type field of WebSocketSubscription
ohlcv_live == <<"o", "h", "l", "c", "v", "_", "l", "i", "v", "e">>
trade_live == <<"t", "r", "a", "d", "e", "_", "l", "i", "v", "e">>
candle_live == <<"c", "a", "n", "d", "l", "e", "_", "l", "i", "v", "e">>
FeedTypes == {ohlcv_live, trade_live, candle_live}

\* (timeframe, type) of the requests: an enumerated pair and one that is not
TimeframeAndType == {<<<<"1", "m">>, ohlcv_live>>, <<<<"a">>, <<"a">>>>}

\* (exchange, symbol, timeframe, type) of a request
RequestFields ==
    {<<e, y, k[1], k[2]>> :
        e \in Strs(MaxStrLen), y \in Strs(MaxStrLen), k \in TimeframeAndType}

\* a key that joins the fields without a separator
make_subscription_key_no_separator(exchange, symbol, timeframe, message_type) ==
    exchange \o symbol \o timeframe \o message_type

\* f"{exchange}:{symbol}:{timeframe}:{message_type}"
make_subscription_key(exchange, symbol, timeframe, message_type) ==
    exchange \o <<":">> \o symbol \o <<":">> \o timeframe \o <<":">>
        \o message_type

KeyOf(t) == make_subscription_key(t[1], t[2], t[3], t[4])

InitKey ==
    /\ active_connections = [i \in 1..NumConns |-> i]
    /\ subscriptions = EmptyDict
    /\ client_state = [c \in Conns |-> "CONNECTED"]
    /\ pc = [c \in Conns |-> "recv"]
    /\ subscription_key = [c \in Conns |-> <<>>]
    /\ it_idx = [c \in Conns |-> 0]
    /\ it_live = [c \in Conns |-> FALSE]
    /\ bc_websocket = [c \in Conns |-> <<>>]
    /\ disconnected_clients = [c \in Conns |-> <<>>]
    /\ bc_sent = [c \in Conns |-> <<>>]
    /\ bc_stayed = [c \in Conns |-> {}]
    /\ last = LastOp("init", 1, <<>>, "none")
    /\ nframes = 0
    /\ nkeys = 0
    /\ subscribed_as = {}
    /\ http = NoRequest
    /\ dep = NoDependency
    /\ sdk = NoStream

\* handle_subscribe for a message with the fields t: subscribe under the key,
\* confirmation, then the sample update broadcast to the key
KSubscribe(c, t) ==
    /\ Cardinality(subscribed_as \cup {<<c, t>>}) <= MaxKeySubs
    /\ LET k == KeyOf(t)
           subsNew == subscribe(subscriptions, c, k)
           r == broadcast_to_subscription(active_connections, subsNew, k, {})
       IN  /\ active_connections' = r.ac
           /\ subscriptions' = r.subs
           /\ last' = [LastOp("broadcast", c, <<k>>, r.exc) EXCEPT
                          !.sent = r.sent,
                          !.stayed = Range(Lookup(subsNew, k))]
    /\ subscribed_as' = subscribed_as \cup {<<c, t>>}
    /\ UNCHANGED <<client_state, pc, subscription_key, it_idx, it_live,
                   bc_websocket, disconnected_clients, bc_sent, bc_stayed,
                   nframes, nkeys, http, dep, sdk>>

\* handle_unsubscribe for a message with the fields t
KUnsubscribe(c, t) ==
    /\ LET r == unsubscribe(subscriptions, c, KeyOf(t))
       IN  /\ subscriptions' = r.subs
           /\ last' = LastOp("unsubscribe", c, <<>>, r.exc)
    /\ subscribed_as' = subscribed_as \ {<<c, t>>}
    /\ UNCHANGED <<active_connections, client_state, pc, subscription_key,
                   it_idx, it_live, bc_websocket, disconnected_clients,
                   bc_sent, bc_stayed, nframes, nkeys, http, dep, sdk>>

NextKey ==
    \/ \E c \in Conns, t \in RequestFields : KSubscribe(c, t)
    \/ \E c \in Conns, t \in RequestFields : KUnsubscribe(c, t)

SpecKey == InitKey /\ [][NextKey]_vars

----------------------------------------------------------------------------
\* The HTTP handlers of routers/candles.py and routers/timeseries.py.  One
\* request is served; an action runs the handler from one await to the next.
\* The storage layer (TimeseriesRepository of fullon_ohlcv) is the
\* environment: its calls are recorded, its results are inputs.

\* all variables of the WebSocket side
WsVars == <<active_connections, subscriptions, client_state, pc,
            subscription_key, it_idx, it_live, bc_websocket,
            disconnected_clients, bc_sent, bc_stayed, last, nframes, nkeys,
            subscribed_as>>

\* the keys of timeframe_map
SupportedTimeframes ==
    {"1m", "3m", "5m", "15m", "30m", "1h", "2h", "4h", "6h", "8h", "12h",
     "1d", "3d", "1w", "1M"}

\* other timeframe tokens a client can send
OtherTimeframes == {"1H", "1D", "1W", "7m", "60m"}

Timeframes == SupportedTimeframes \cup OtherTimeframes

\* the periods fetch_ohlcv is called with
Periods == {"minutes", "hours", "days", "weeks", "months"}

\* timeframe_map with a period get_recent_candles does not know for 1w
timeframe_map_with_unknown_period ==
    [t \in SupportedTimeframes |->
        CASE t = "1m" -> <<1, "minutes">>
          [] t = "3m" -> <<3, "minutes">>
          [] t = "5m" -> <<5, "minutes">>
          [] t = "15m" -> <<15, "minutes">>
          [] t = "30m" -> <<30, "minutes">>
          [] t = "1h" -> <<1, "hours">>
          [] t = "2h" -> <<2, "hours">>
          [] t = "4h" -> <<4, "hours">>
          [] t = "6h" -> <<6, "hours">>
          [] t = "8h" -> <<8, "hours">>
          [] t = "12h" -> <<12, "hours">>
          [] t = "1d" -> <<1, "days">>
          [] t = "3d" -> <<3, "days">>
          [] t = "1w" -> <<7, "d">>
          [] t = "1M" -> <<1, "months">>]

timeframe_map ==
    [t \in SupportedTimeframes |->
        CASE t = "1m" -> <<1, "minutes">>
          [] t = "3m" -> <<3, "minutes">>
          [] t = "5m" -> <<5, "minutes">>
          [] t = "15m" -> <<15, "minutes">>
          [] t = "30m" -> <<30, "minutes">>
          [] t = "1h" -> <<1, "hours">>
          [] t = "2h" -> <<2, "hours">>
          [] t = "4h" -> <<4, "hours">>
          [] t = "6h" -> <<6, "hours">>
          [] t = "8h" -> <<8, "hours">>
          [] t = "12h" -> <<12, "hours">>
          [] t = "1d" -> <<1, "days">>
          [] t = "3d" -> <<3, "days">>
          [] t = "1w" -> <<1, "weeks">>
          [] t = "1M" -> <<1, "months">>]

\* a conversion that falls back to one hour for a token it does not know
convert_timeframe_to_compression_with_default(timeframe) ==
    IF timeframe \notin DOMAIN timeframe_map
    THEN [val |-> <<1, "hours">>, exc |-> "none"]
    ELSE [val |-> timeframe_map[timeframe], exc |-> "none"]

\* convert_timeframe_to_compression: the pair, or HTTPException(422)
convert_timeframe_to_compression(timeframe) ==
    IF timeframe \notin DOMAIN timeframe_map
    THEN [val |-> <<>>, exc |-> "HTTPException:422"]
    ELSE [val |-> timeframe_map[timeframe], exc |-> "none"]

\* Arrow.shift(<unit>=n): months move the calendar month, the other units
\* the minutes
arrow_shift(t, unit, n) ==
    IF unit = "months" THEN [t EXCEPT !.months = @ + n]
    ELSE IF unit = "weeks" THEN [t EXCEPT !.minutes = @ + n * 7 * 24 * 60]
    ELSE IF unit = "days" THEN [t EXCEPT !.minutes = @ + n * 24 * 60]
    ELSE IF unit = "hours" THEN [t EXCEPT !.minutes = @ + n * 60]
    ELSE [t EXCEPT !.minutes = @ + n]

\* arrow.get(datetime): a datetime without tzinfo is taken as UTC
arrow_get(dt) == [dt EXCEPT !.aware = TRUE]

\* the window of get_recent_candles with the limit left out of the shift
recent_window_without_limit(now, compression, period, limit) ==
    LET end_time == now
        start_time ==
            IF period \in Periods
            THEN arrow_shift(end_time, period, -compression)
            ELSE arrow_shift(end_time, "hours", -24)
    IN  [fromdate |-> start_time, todate |-> end_time]

\* the time range get_recent_candles computes from arrow.now()
recent_window(now, compression, period, limit) ==
    LET end_time == now
        start_time ==
            IF period = "minutes"
            THEN arrow_shift(end_time, "minutes", -compression * limit)
            ELSE IF period = "hours"
            THEN arrow_shift(end_time, "hours", -compression * limit)
            ELSE IF period = "days"
            THEN arrow_shift(end_time, "days", -compression * limit)
            ELSE IF period = "weeks"
            THEN arrow_shift(end_time, "weeks", -compression * limit)
            ELSE IF period = "months"
            THEN arrow_shift(end_time, "months", -compression * limit)
            ELSE arrow_shift(end_time, "hours", -24)
    IN  [fromdate |-> start_time, todate |-> end_time]

\* the numeric fields of a row of fetch_ohlcv
NumericFields == {"open", "high", "low", "close", "vol"}

\* values of a field: a number or None; 0.0 is what _f gives for None
NULL == "None"
Number == "1.5"
Zero == "0.0"

\* the fields that are NULL in some row of the storage
NullableFields == {"close", "vol"}

\* rows the storage returns: every field a number, or one field NULL
StorageRows ==
    {r \in [NumericFields -> {Number, NULL}] :
        /\ \A f \in NumericFields \ NullableFields : r[f] = Number
        /\ Cardinality({f \in NumericFields : r[f] = NULL}) <= 1}

HasNull(rows) ==
    \E i \in 1..Len(rows), f \in NumericFields : rows[i][f] = NULL

\* a trim that keeps the first n rows: ohlcv_data[:limit]
LastN_keeps_head(rows, n) ==
    IF Len(rows) <= n THEN rows ELSE SubSeq(rows, 1, n)

\* ohlcv_data[-limit:]
LastN(rows, n) ==
    IF Len(rows) <= n THEN rows ELSE SubSeq(rows, Len(rows) - n + 1, Len(rows))

\* the list comprehension of the candles handlers: float(x) on every field,
\* TypeError for None
candle_rows(rows) ==
    IF HasNull(rows)
    THEN [val |-> <<>>, exc |-> "TypeError"]
    ELSE [val |-> [i \in 1..Len(rows) |->
                      [f \in NumericFields |-> rows[i][f]]],
          exc |-> "none"]

\* the list comprehension of get_ohlcv_aggregation with _f: 0.0 for None
ohlcv_rows(rows) ==
    [val |-> [i \in 1..Len(rows) |->
                 [f \in NumericFields |->
                     IF rows[i][f] # NULL THEN rows[i][f] ELSE Zero]],
     exc |-> "none"]

\* validate_timezone_aware of CandlesResponse and TimeseriesResponse, on the
\* start_time and end_time the handler passes (<<>> when it passes none)
validate_timezone_aware(times) ==
    IF \E i \in 1..Len(times) : ~times[i].aware
    THEN "ValueError" ELSE "none"

\* the status the client gets for an exception that leaves a candles
\* handler, which has no try/except: an HTTPException keeps its status, any
\* other exception is answered with 500
candles_status(exc) ==
    IF exc = "none" THEN 200
    ELSE IF exc = "HTTPException:422" THEN 422
    ELSE 500

\* the except clauses of get_ohlcv_aggregation: "except HTTPException: raise",
\* "except Exception" raises HTTPException(500)
timeseries_status(exc) ==
    IF exc = "none" THEN 200
    ELSE IF exc = "HTTPException:422" THEN 422
    ELSE 500

Handlers == {"recent", "range", "timeseries"}

\* FullonOhlcvGateway.get_routers()
get_routers == <<"trades_router">>

\* get_all_routers()
get_all_routers ==
    <<"trades_router", "candles_router", "timeseries_router",
      "websocket_router", "exchanges_router", "symbols_router">>

\* the router a handler is defined on
router_of(handler) ==
    IF handler = "timeseries" THEN "timeseries_router" ELSE "candles_router"

RangeInstants ==
    {Instant(0, m, a) : m \in 0..MaxTime, a \in BOOLEAN}

\* the request ends with the status for exc; the repository, when open, is
\* closed by the finally clause of the dependency or by "async with"
Respond(h, status) ==
    http' = [h EXCEPT !.pc = "done", !.status_code = status,
                      !.calls = IF "aenter" \in Range(h.calls)
                                THEN Append(h.calls, "aexit") ELSE h.calls]

\* TimeseriesRepository(...) and the await of its __aenter__
OpenRepository(h) ==
    http' = [h EXCEPT !.pc = "open", !.calls = h.calls \o <<"init", "aenter">>]

\* A request arrives at an application that includes the routers of
\* http.routers; a path of a router that is not included is answered with
\* 404 and no handler runs.  For the candles handlers FastAPI first resolves
\* Depends(get_timeseries_repository), which constructs the repository and
\* awaits __aenter__; get_ohlcv_aggregation converts the timeframe first and
\* then enters "async with TimeseriesRepository(...)".
HRequest(handler, timeframe, limit, start_time, end_time) ==
    /\ http.pc = "idle"
    /\ handler = "recent" =>
           start_time = Instant(0, 0, TRUE) /\ end_time = start_time
    /\ handler = "range" => limit = 1
    /\ LET h == [http EXCEPT
                    !.path = handler,
                    !.handler = handler, !.timeframe = timeframe,
                    !.limit = limit, !.start_time = start_time,
                    !.end_time = end_time]
           c == convert_timeframe_to_compression(timeframe)
       IN  IF router_of(handler) \notin Range(http.routers)
           THEN http' = [http EXCEPT !.path = handler, !.pc = "done",
                                     !.status_code = 404]
           ELSE IF handler = "timeseries"
           THEN IF c.exc # "none"
                THEN Respond(h, timeseries_status(c.exc))
                ELSE OpenRepository([h EXCEPT !.compression = c.val[1],
                                              !.period = c.val[2]])
           ELSE OpenRepository(h)
    /\ UNCHANGED <<WsVars, dep, sdk>>

\* the await of fetch_ohlcv starts
Fetch(h, fromdate, todate) ==
    http' = [h EXCEPT !.pc = "fetch", !.fromdate = <<fromdate>>,
                      !.todate = <<todate>>,
                      !.calls = Append(h.calls, "fetch")]

\* __aenter__ is over (outcome "ok" or an exception of the storage layer).
\* When it raised, the dependency of the candles handlers still awaits
\* __aexit__ in its finally clause; "async with" does not.
\* The candles handlers now run their body up to the await of fetch_ohlcv:
\* timeframe conversion, then the time range; now is what arrow.now() gives.
HOpened(outcome, now) ==
    /\ http.pc = "open"
    /\ IF outcome # "ok"
       THEN IF http.handler = "timeseries"
            THEN http' = [http EXCEPT !.pc = "done", !.status_code = 500]
            ELSE Respond(http, 500)
       ELSE IF http.handler = "timeseries"
       THEN Fetch(http, arrow_get(http.start_time), arrow_get(http.end_time))
       ELSE LET c == convert_timeframe_to_compression(http.timeframe)
            IN  IF c.exc # "none"
                THEN Respond(http, candles_status(c.exc))
                ELSE LET h == [http EXCEPT !.compression = c.val[1],
                                           !.period = c.val[2]]
                         w == recent_window(now, c.val[1], c.val[2],
                                            http.limit)
                     IN  IF http.handler = "recent"
                         THEN Fetch([h EXCEPT !.now = <<now>>],
                                    w.fromdate, w.todate)
                         ELSE Fetch(h, arrow_get(http.start_time),
                                    arrow_get(http.end_time))
    /\ UNCHANGED <<WsVars, dep, sdk>>

\* fetch_ohlcv is over: it returned rows, or raised.  The handler converts
\* the rows and builds the response model.
HFetched(outcome, rows) ==
    /\ http.pc = "fetch"
    /\ outcome # "ok" => rows = <<>>
    /\ LET h == [http EXCEPT !.ohlcv_data = rows]
           status(e) == IF http.handler = "timeseries"
                        THEN timeseries_status(e) ELSE candles_status(e)
           kept == IF http.handler = "range" THEN rows
                   ELSE LastN(rows, http.limit)
           conv == IF http.handler = "timeseries" THEN ohlcv_rows(kept)
                   ELSE candle_rows(kept)
           v == validate_timezone_aware(
                    IF http.handler = "recent" THEN <<>>
                    ELSE <<http.start_time, http.end_time>>)
       IN  IF outcome # "ok" THEN Respond(http, status(outcome))
           ELSE IF conv.exc # "none" THEN Respond(h, status(conv.exc))
           ELSE Respond([h EXCEPT !.candles_data = conv.val], status(v))
    /\ UNCHANGED <<WsVars, dep, sdk>>

\* what the storage layer can return
FetchResults == UNION {[1..n -> StorageRows] : n \in 0..MaxRows}

NextHttp ==
    \/ \E handler \in Handlers, timeframe \in Timeframes,
          limit \in 1..MaxLimit, start_time, end_time \in RangeInstants :
            HRequest(handler, timeframe, limit, start_time, end_time)
    \/ \E outcome \in {"ok", "Exception"}, now \in {Instant(0, 0, TRUE)} :
            HOpened(outcome, now)
    \/ \E outcome \in {"ok", "Exception"}, rows \in FetchResults :
            HFetched(outcome, rows)

\* the application is composed from the routers of get_all_routers() or from
\* those of gateway.get_routers()
InitHttp ==
    /\ active_connections = <<>>
    /\ subscriptions = EmptyDict
    /\ client_state = [c \in Conns |-> "CONNECTING"]
    /\ pc = [c \in Conns |-> "new"]
    /\ subscription_key = [c \in Conns |-> <<>>]
    /\ it_idx = [c \in Conns |-> 0]
    /\ it_live = [c \in Conns |-> FALSE]
    /\ bc_websocket = [c \in Conns |-> <<>>]
    /\ disconnected_clients = [c \in Conns |-> <<>>]
    /\ bc_sent = [c \in Conns |-> <<>>]
    /\ bc_stayed = [c \in Conns |-> {}]
    /\ last = LastOp("init", 1, <<>>, "none")
    /\ nframes = 0
    /\ nkeys = 0
    /\ subscribed_as = {}
    /\ dep = NoDependency
    /\ sdk = NoStream
    /\ \E routers \in {get_all_routers, get_routers} :
            http = [NoRequest EXCEPT !.routers = routers]

SpecHttp == InitHttp /\ [][NextHttp]_vars

\* The time range of get_recent_candles as a function of arrow.now(), the
\* pair of the timeframe and the limit, for every pair and period.

Compressions == {1, 3, 15}

WindowPeriods == Periods \cup {"seconds", "years"}

WindowLimits == (1..MaxLimit) \cup {24}

InitWindow ==
    /\ active_connections = <<>>
    /\ subscriptions = EmptyDict
    /\ client_state = [c \in Conns |-> "CONNECTING"]
    /\ pc = [c \in Conns |-> "new"]
    /\ subscription_key = [c \in Conns |-> <<>>]
    /\ it_idx = [c \in Conns |-> 0]
    /\ it_live = [c \in Conns |-> FALSE]
    /\ bc_websocket = [c \in Conns |-> <<>>]
    /\ disconnected_clients = [c \in Conns |-> <<>>]
    /\ bc_sent = [c \in Conns |-> <<>>]
    /\ bc_stayed = [c \in Conns |-> {}]
    /\ last = LastOp("init", 1, <<>>, "none")
    /\ nframes = 0
    /\ nkeys = 0
    /\ subscribed_as = {}
    /\ dep = NoDependency
    /\ sdk = NoStream
    /\ \E now \in 0..MaxTime, compression \in Compressions,
          period \in WindowPeriods, limit \in WindowLimits :
            http = [NoRequest EXCEPT
                       !.handler = "recent", !.pc = "window",
                       !.compression = compression, !.period = period,
                       !.limit = limit, !.now = <<Instant(0, now, TRUE)>>]

\* lines 132-144 of get_recent_candles
WindowComputed ==
    /\ http.pc = "window"
    /\ LET w == recent_window(http.now[1], http.compression, http.period,
                              http.limit)
       IN  http' = [http EXCEPT !.pc = "done", !.fromdate = <<w.fromdate>>,
                                !.todate = <<w.todate>>]
    /\ UNCHANGED <<WsVars, dep, sdk>>

NextWindow == WindowComputed

SpecWindow == InitWindow /\ [][NextWindow]_vars

----------------------------------------------------------------------------
\* The repository dependencies of dependencies/database.py (async generators
\* with one yield) and the trade handlers of routers/trades.py that use
\* get_trade_repository.  The repository classes of fullon_ohlcv are the
\* environment: constructor, __aenter__, the read call and __aexit__ return
\* or raise.

\* get_trade_repository, get_candle_repository, get_timeseries_repository
DepKinds == {"trade", "candle", "timeseries"}

\* values of the exchange and symbol arguments (NULL is None)
ExchangeValues == {NULL, "", " ", "binance", "kraken"}
SymbolValues == {NULL, "", " ", "BTC/USDT", "ETH/USD"}

\* str.strip() on these values
strip(x) == IF x = " " THEN "" ELSE x

\* validation that looks at the symbol first
validate_symbol_first(exchange, symbol) ==
    IF symbol = NULL \/ symbol = "" \/ strip(symbol) = ""
    THEN [exc |-> "HTTPException:422", detail |-> "Symbol cannot be empty"]
    ELSE IF exchange = NULL \/ exchange = "" \/ strip(exchange) = ""
    THEN [exc |-> "HTTPException:422", detail |-> "Exchange cannot be empty"]
    ELSE [exc |-> "none", detail |-> ""]

\* validate_exchange_symbol
validate_exchange_symbol(exchange, symbol) ==
    IF exchange = NULL \/ exchange = "" \/ strip(exchange) = ""
    THEN [exc |-> "HTTPException:422", detail |-> "Exchange cannot be empty"]
    ELSE IF symbol = NULL \/ symbol = "" \/ strip(symbol) = ""
    THEN [exc |-> "HTTPException:422", detail |-> "Symbol cannot be empty"]
    ELSE [exc |-> "none", detail |-> ""]

\* the repository object the dependency constructs
new_repository(exchange, symbol) ==
    [exchange |-> exchange, symbol |-> symbol, test |-> TRUE]

\* outcomes of the read call of a handler (repo.get_recent_trades,
\* repo.get_trades_in_range, repo.fetch_ohlcv)
ReadOutcomes == {"ok", "ProgrammingError", "Exception"}

\* the except clauses of the trade handlers: what leaves the handler
trade_handler_except(e) ==
    IF e = "ok" THEN "none"
    ELSE IF e = "ProgrammingError" THEN "HTTPException:404"
    ELSE "HTTPException:500"

\* what leaves a handler that has no try/except
bare_handler_except(e) == IF e = "ok" THEN "none" ELSE e

\* the status the framework answers with for what leaves the request
status_of(exc) ==
    IF exc = "none" THEN 200
    ELSE IF exc = "HTTPException:404" THEN 404
    ELSE IF exc = "HTTPException:422" THEN 422
    ELSE 500

\* an inner try whose finally clause runs on the normal path only
inner_try_exit_on_success_only(exc) ==
    [pending |-> IF exc = "none" THEN "none" ELSE "HTTPException:500",
     exits |-> exc = "none"]

\* the inner try of a dependency for an exception exc raised inside it (by
\* __aenter__, or thrown in at the yield): "except Exception" raises
\* HTTPException(500), and "finally" awaits __aexit__ in every case
inner_try(exc) ==
    [pending |-> IF exc = "none" THEN "none" ELSE "HTTPException:500",
     exits |-> TRUE]

\* the outer "except Exception" of a dependency for what leaves the inner try
outer_except(pending) ==
    IF pending = "none" THEN "none" ELSE "HTTPException:500"

\* the dependency is over: exc leaves the request
DepDone(d, exc, detail) ==
    dep' = [d EXCEPT !.pc = "done", !.status_code = status_of(exc),
                     !.detail = detail]

\* the inner try is left with the exception exc (or "none")
LeaveInnerTry(d, exc) ==
    LET r == inner_try(exc)
        d1 == [d EXCEPT !.pending = r.pending]
    IN  IF r.exits
        THEN dep' = [d1 EXCEPT !.pc = "aexit",
                               !.calls = Append(d.calls, "aexit")]
        ELSE DepDone(d1, IF r.pending = "none" THEN d.raised
                         ELSE outer_except(r.pending),
                     IF r.pending = "none" THEN ""
                     ELSE "Database connection error")

\* The dependency is called: validation, then the constructor (which returns
\* or raises), then the await of __aenter__.
DepCall(kind, exchange, symbol, ctor) ==
    /\ dep.pc = "idle"
    /\ LET d == [NoDependency EXCEPT !.kind = kind, !.exchange = exchange,
                                     !.symbol = symbol]
           v == validate_exchange_symbol(exchange, symbol)
       IN  IF v.exc # "none" THEN DepDone(d, v.exc, v.detail)
           ELSE IF ctor # "ok"
           THEN DepDone(d, outer_except(ctor), "Database connection error")
           ELSE dep' = [d EXCEPT !.pc = "aenter",
                                 !.repo = <<new_repository(exchange, symbol)>>,
                                 !.calls = <<"aenter">>]
    /\ UNCHANGED <<WsVars, http, sdk>>

\* __aenter__ is over: the repository is yielded to the handler, or the
\* exception is handled by the inner try
DepEntered(outcome) ==
    /\ dep.pc = "aenter"
    /\ IF outcome = "ok"
       THEN dep' = [dep EXCEPT !.pc = "yield"]
       ELSE LeaveInnerTry(dep, outcome)
    /\ UNCHANGED <<WsVars, http, sdk>>

\* The handler that got the repository is over; read is the outcome of its
\* read call.  An exception that leaves the handler is thrown into the
\* generator at its yield, or the generator is resumed or closed without it:
\* which of the two depends on the version of the framework and on a
\* wrapping generator (candles.py lines 25-33).
DepHandlerDone(read, thrown) ==
    /\ dep.pc = "yield"
    /\ LET raised == IF dep.kind = "trade" THEN trade_handler_except(read)
                     ELSE bare_handler_except(read)
           d == [dep EXCEPT !.read = read, !.raised = raised,
                            !.thrown = thrown /\ raised # "none"]
       IN  LeaveInnerTry(d, IF d.thrown THEN raised ELSE "none")
    /\ UNCHANGED <<WsVars, http, sdk>>

\* __aexit__ is over; an exception it raised is logged only.  What left the
\* inner try then goes through the outer "except Exception".
DepExited(outcome) ==
    /\ dep.pc = "aexit"
    /\ LET d == [dep EXCEPT !.exit = outcome]
       IN  IF dep.pending = "none"
           THEN DepDone(d, dep.raised, "")
           ELSE DepDone(d, outer_except(dep.pending),
                        "Database connection error")
    /\ UNCHANGED <<WsVars, http, sdk>>

NextDep ==
    \/ \E kind \in DepKinds, exchange \in ExchangeValues,
          symbol \in SymbolValues, ctor \in {"ok", "Exception"} :
            DepCall(kind, exchange, symbol, ctor)
    \/ \E outcome \in {"ok", "Exception"} : DepEntered(outcome)
    \/ \E read \in ReadOutcomes, thrown \in BOOLEAN :
            DepHandlerDone(read, thrown)
    \/ \E outcome \in {"ok", "Exception"} : DepExited(outcome)

SpecDep == Init /\ [][NextDep]_vars

----------------------------------------------------------------------------
\* The SDK's WebSocket client (src/sdk/fullon_ohlcv_sdk/websocket.py): one
\* call of stream_ohlcv, from the call to the exception or the end of the
\* stream.

MaxCandles == 2
MaxWords == 2

StreamTimeframes == {"1m", "1h", "", NULL}

Words == {"Exchange", "symbol", "timeframe", "required"}

\* str.lower on a word
lower(w) == IF w = "Exchange" THEN "exchange" ELSE w

\* the texts of an error frame: one to MaxWords words
ErrorTexts == UNION {[1..n -> Words] : n \in 1..MaxWords}

\* "w in error_msg.lower()"
Mentions(error_msg, w) == \E i \in DOMAIN error_msg : lower(error_msg[i]) = w

\* the frames the server can send: a candle whose data json_to_candle takes
\* or refuses, an error frame, one of another type, a text that is no JSON
ServerFrames ==
    {[type |-> "candle", message |-> <<>>, data |-> d] :
        d \in {"ok", "DeserializationError", "ValueError"}}
    \cup {[type |-> "error", message |-> m, data |-> "ok"] : m \in ErrorTexts}
    \cup {[type |-> t, message |-> <<>>, data |-> "ok"] :
            t \in {"subscription_confirmed", "not_json"}}

\* the if/elif chain on the error message, lines 110-118
error_type(error_msg) ==
    IF Mentions(error_msg, "exchange") THEN "ExchangeNotFoundError"
    ELSE IF Mentions(error_msg, "symbol") THEN "SymbolNotFoundError"
    ELSE IF Mentions(error_msg, "timeframe") THEN "TimeframeError"
    ELSE "FullonOhlcvError"

\* the body of the inner try for one frame: what it raises
message_body(frame) ==
    IF frame.type = "not_json" THEN "JSONDecodeError"
    ELSE IF frame.type = "candle"
         THEN IF frame.data = "ok" THEN "none" ELSE frame.data
    ELSE IF frame.type = "error" THEN error_type(frame.message)
    ELSE "none"

\* the except clauses of the inner try, lines 121-127
message_except(exc) ==
    IF exc = "none" THEN "none"
    ELSE IF exc = "JSONDecodeError" THEN "DeserializationError"
    ELSE IF exc = "DeserializationError" THEN "DeserializationError"
    ELSE "FullonOhlcvError"

\* the except clauses of the outer try, lines 129-134
stream_except(exc) ==
    IF exc = "none" THEN "none" ELSE "APIConnectionError"

\* the exception leaves stream_ohlcv through the finally of line 135
StreamRaise(exc) ==
    sdk' = [sdk EXCEPT !.pc = "done", !.websocket = FALSE,
                       !.raised = stream_except(exc)]

\* the caller starts the generator: the timeframe check, then the connect
StreamCall(timeframe) ==
    /\ sdk.pc = "idle"
    /\ IF timeframe = "" \/ timeframe = NULL
       THEN sdk' = [sdk EXCEPT !.pc = "done", !.raised = "TimeframeError"]
       ELSE sdk' = [sdk EXCEPT !.pc = "connect", !.timeframe = timeframe]
    /\ UNCHANGED <<WsVars, http, dep>>

\* websockets.connect returned or raised
StreamConnected(outcome) ==
    /\ sdk.pc = "connect"
    /\ IF outcome = "ok"
       THEN sdk' = [sdk EXCEPT !.pc = "send", !.websocket = TRUE]
       ELSE StreamRaise(outcome)
    /\ UNCHANGED <<WsVars, http, dep>>

\* websocket.send of the subscription returned or raised
StreamSent(outcome) ==
    /\ sdk.pc = "send"
    /\ IF outcome = "ok"
       THEN sdk' = [sdk EXCEPT !.pc = "listen"]
       ELSE StreamRaise(outcome)
    /\ UNCHANGED <<WsVars, http, dep>>

\* the async for delivered a frame: one pass of the loop body
StreamMessage(frame) ==
    /\ sdk.pc = "listen"
    /\ LET exc == message_except(message_body(frame))
           s == [sdk EXCEPT !.message = <<frame>>]
       IN  IF exc # "none"
           THEN sdk' = [s EXCEPT !.pc = "done", !.websocket = FALSE,
                                 !.raised = stream_except(exc)]
           ELSE IF frame.type = "candle"
           THEN /\ sdk.yielded < MaxCandles
                /\ sdk' = [s EXCEPT !.pc = "yield",
                                    !.yielded = sdk.yielded + 1]
           ELSE sdk' = s
    /\ UNCHANGED <<WsVars, http, dep>>

\* the caller asks for the next candle
StreamResumed ==
    /\ sdk.pc = "yield"
    /\ sdk' = [sdk EXCEPT !.pc = "listen"]
    /\ UNCHANGED <<WsVars, http, dep>>

\* the connection ended: the async for stops on a normal closure and raises
\* ConnectionClosedError on any other
StreamClosed(outcome) ==
    /\ sdk.pc = "listen"
    /\ IF outcome = "ok"
       THEN sdk' = [sdk EXCEPT !.pc = "done", !.websocket = FALSE]
       ELSE StreamRaise(outcome)
    /\ UNCHANGED <<WsVars, http, dep>>

NextSdk ==
    \/ \E timeframe \in StreamTimeframes : StreamCall(timeframe)
    \/ \E outcome \in {"ok", "InvalidURI", "OSError"} :
            StreamConnected(outcome)
    \/ \E outcome \in {"ok", "ConnectionClosedError"} : StreamSent(outcome)
    \/ \E frame \in ServerFrames : StreamMessage(frame)
    \/ StreamResumed
    \/ \E outcome \in {"ok", "ConnectionClosedError"} : StreamClosed(outcome)

SpecSdk == Init /\ [][NextSdk]_vars

----------------------------------------------------------------------------
\* Properties

Registry == <<active_connections, subscriptions>>

\* the list s without every occurrence of x
Without(s, x) == SelectSeq(s, LAMBDA y : y # x)

\* C1: subscribe and unsubscribe are idempotent.  After subscribe(c, k) the
\* connection c occurs exactly once in k's list, and a subscribe(c, k) for a
\* connection that is already in k's list leaves the whole registry as it
\* was; unsubscribe(c, k) for a connection that is not in k's list (also
\* when k has no entry) does not raise and leaves the registry as it was.
C1_SubscribeUnsubscribeIdempotent ==
    [][/\ last'.op = "subscribe" =>
            LET c == last'.conn
                k == last'.key[1]
            IN  /\ Count(Lookup(subscriptions', k), c) = 1
                /\ c \in Range(Lookup(subscriptions, k)) =>
                       Registry' = Registry
       /\ (/\ last'.op = "unsubscribe"
           /\ last'.conn \notin Range(Lookup(subscriptions, last'.key[1])))
           => (last'.exc = "none" /\ Registry' = Registry)]_vars

\* a second subscribe of a connection to a key that has another subscriber
C1_Witness ==
    /\ last.op = "subscribe"
    /\ last.noop
    /\ Len(Lookup(subscriptions, last.key[1])) >= 2

\* C2: after disconnect(c) the connection c is not an active connection and
\* is in no key's list; every list is what it was without c, so the other
\* subscribers stay, in their order, and a key whose only subscriber was c
\* has no entry any more.
C2_DisconnectCleansUp ==
    [][last'.op = "disconnect" =>
           LET c == last'.conn
           IN  /\ c \notin Range(active_connections')
               /\ active_connections' = Without(active_connections, c)
               /\ \A k \in DOMAIN subscriptions' :
                      c \notin Range(subscriptions'[k])
               /\ DOMAIN subscriptions' \subseteq DOMAIN subscriptions
               /\ \A k \in DOMAIN subscriptions :
                      LET rest == Without(subscriptions[k], c)
                      IN  IF rest = <<>>
                          THEN k \notin DOMAIN subscriptions'
                          ELSE /\ k \in DOMAIN subscriptions'
                               /\ subscriptions'[k] = rest]_vars

\* a disconnect of a connection that held two keys, one shared with another
\* connection (kept) and one of its own (removed)
C2_Witness ==
    /\ last.op = "disconnect"
    /\ Cardinality(last.held) >= 2
    /\ \E k \in last.held : k \in DOMAIN subscriptions
    /\ \E k \in last.held : k \notin DOMAIN subscriptions

\* C3: in every reachable state of the endpoint tasks no key of the registry
\* has an empty subscriber list: a key has an entry if and only if at least
\* one connection is in its list.
C3_NoEmptySubscriberList ==
    \A k \in Keys :
        k \in DOMAIN subscriptions <=>
            \E c \in Conns : c \in Range(Lookup(subscriptions, k))

\* a broadcast whose cleanup removed the last subscriber of its key, and
\* with it the key
C3_Witness ==
    /\ last.op = "broadcast"
    /\ last.failed # {}
    /\ last.key[1] \notin DOMAIN subscriptions

\* C4: when a broadcast in which a send failed returns, it has not raised
\* and it has sent the message exactly once to every connection that was
\* subscribed to the key from its start to its end, the failed send included.
C4_BroadcastIsolation ==
    (last.op = "broadcast" /\ last.failed # {}) =>
        /\ last.exc = "none"
        /\ \A w \in last.stayed : Count(last.sent, w) = 1

\* C5: when a broadcast returns, every connection whose send failed is out
\* of the active connections and out of the list of every key, and the
\* return of the broadcast takes no subscription away from any other
\* connection.
C5_FailedSendersDisconnected ==
    [][last'.op = "broadcast" =>
           /\ \A w \in last'.failed :
                  /\ w \notin Range(active_connections')
                  /\ HeldKeys(subscriptions', w) = {}
           /\ \A w \in Conns \ last'.failed :
                  /\ HeldKeys(subscriptions', w) = HeldKeys(subscriptions, w)
                  /\ (w \in Range(active_connections')) =
                         (w \in Range(active_connections))]_vars

\* a broadcast whose send failed for a connection that held two keys
C5_Witness ==
    /\ last.op = "broadcast"
    /\ last.failed # {}
    /\ Cardinality(last.held) >= 2

\* C6: when a broadcast returns, every connection that was subscribed to
\* the key from its start to its end has been sent the message exactly once.
C6_EveryStayingSubscriberSentOnce ==
    last.op = "broadcast" =>
        \A w \in last.stayed : Count(last.sent, w) = 1

\* C7: every connection in a key's list is an active connection (a
\* disconnected connection never comes back into the registry).
C7_SubscribersAreActive ==
    \A k \in DOMAIN subscriptions :
        Range(subscriptions[k]) \subseteq Range(active_connections)

\* C8: a connection whose receive loop has ended is not an active connection
\* and is in no key's list.
C8_LoopExitDisconnects ==
    \A c \in Conns :
        pc[c] \in {"closed", "raised"} =>
            /\ c \notin Range(active_connections)
            /\ HeldKeys(subscriptions, c) = {}

\* C9: disconnect(c) for a connection that is registered nowhere, because it
\* was disconnected before or was never connected, does not raise and leaves
\* the active connections and every key's list as they were.
C9_DisconnectIdempotent ==
    [][(/\ last'.op = "disconnect"
        /\ last'.conn \notin Range(active_connections)
        /\ HeldKeys(subscriptions, last'.conn) = {})
        => (last'.exc = "none" /\ Registry' = Registry)]_vars

\* a second disconnect of a connection that had been connected, with
\* subscriptions of another connection in the registry
C9_Witness ==
    /\ last.op = "disconnect"
    /\ last.noop
    /\ client_state[last.conn] # "CONNECTING"
    /\ DOMAIN subscriptions # {}

\* C10: send_personal_message never raises and never changes the registry;
\* it sends nothing when the client state is not CONNECTED.
C10_SendPersonalNeverRaises ==
    [][last'.op = "send_personal" =>
           /\ last'.exc = "none"
           /\ Registry' = Registry
           /\ client_state[last'.conn] # "CONNECTED" =>
                  last'.sent = <<>>]_vars

\* a send to a subscribed, active connection that failed and was swallowed
C10_Witness ==
    /\ last.op = "send_personal"
    /\ last.failed = {last.conn}
    /\ last.conn \in Range(active_connections)
    /\ HeldKeys(subscriptions, last.conn) # {}

\* a send_personal_message for a connection that is not CONNECTED
C10_NotConnectedReached ==
    /\ last.op = "send_personal"
    /\ client_state[last.conn] = "DISCONNECTED"
    /\ last.sent = <<>>

C12_BadFrameAnsweredInBand ==
    [][\A c \in Conns :
           /\ (\E f \in BadFrames : RecvBad(c, f)) =>
                  /\ pc'[c] \in ErrorSites
                  /\ Registry' = Registry
           /\ (pc[c] \in ErrorSites /\ pc'[c] # pc[c]) =>
                  /\ pc'[c] = "recv"
                  /\ Registry' = Registry]_vars

\* a subscribed connection that got an error frame and is receiving again
C12_Witness ==
    /\ last.op = "error_reply"
    /\ pc[last.conn] = "recv"
    /\ last.conn \in Range(active_connections)
    /\ HeldKeys(subscriptions, last.conn) # {}

\* C13: every valid subscribe message makes its task send the
\* subscription_confirmed frame to the sender, and the task starts the sends
\* of the ohlcv_update frames of that message only when the send of the
\* confirmation is over.
C13_ConfirmationBeforeUpdate ==
    [][\A c \in Conns :
           /\ (\E k \in Keys : RecvSubscribe(c, k)) => pc'[c] = "confirm"
           /\ (pc'[c] = "bc_send" /\ pc[c] # "bc_send") => pc[c] = "confirm"
      ]_vars

\* the update of a subscribe message is being sent to its sender
C13_Witness ==
    \E c \in Conns : pc[c] = "bc_send" /\ bc_websocket[c] = <<c>>

\* C14: the subscription key is injective in its four fields, so the update
\* broadcast that a subscribe message for the fields t starts is sent only to
\* connections that hold a subscription requested with exactly the fields t.
C14_KeyInjective ==
    [][\A c \in Conns, t \in RequestFields :
           KSubscribe(c, t) =>
               \A w \in Range(last'.sent) : <<w, t>> \in subscribed_as']_vars

\* a is earlier than b
Before(a, b) ==
    /\ a.months <= b.months
    /\ a.minutes <= b.minutes
    /\ <<a.months, a.minutes>> # <<b.months, b.minutes>>

RangeHandlers == {"range", "timeseries"}

ClientError(status) == status \in 400..499

\* C15: a range request whose start_time is after or equal to its end_time
\* (both with timezone information) never gets a fetch_ohlcv call issued for
\* it, and is answered with a 4xx status.
C15_ReversedRangeRejected ==
    (/\ http.handler \in RangeHandlers
     /\ http.start_time.aware /\ http.end_time.aware
     /\ ~Before(http.start_time, http.end_time))
        => /\ "fetch" \notin Range(http.calls)
           /\ http.pc = "done" => ClientError(http.status_code)

\* C16: a range request whose start_time or end_time has no timezone
\* information (start before end) never gets a fetch_ohlcv call issued for
\* it, and is answered with a 4xx status, never with a 5xx.
C16_NaiveInstantRejected ==
    (/\ http.handler \in RangeHandlers
     /\ ~http.start_time.aware \/ ~http.end_time.aware
     /\ Before(http.start_time, http.end_time))
        => /\ "fetch" \notin Range(http.calls)
           /\ http.pc = "done" => ClientError(http.status_code)

\* C17: for a request with an unsupported timeframe no repository is
\* constructed or opened and no fetch is issued at any time, and the request
\* is answered with 422.
C17_TimeframeCheckedFirst ==
    (http.handler \in Handlers /\ http.timeframe \notin SupportedTimeframes)
        => /\ http.calls = <<>>
           /\ http.pc = "done" => http.status_code = 422

\* the handler has called convert_timeframe_to_compression
Converted ==
    \/ http.handler = "timeseries" /\ http.pc # "idle"
    \/ /\ http.handler \in {"recent", "range"}
       /\ \/ http.pc = "fetch"
          \/ /\ http.pc = "done"
             /\ http.status_code = 422 \/ "fetch" \in Range(http.calls)

\* C18: once a handler has converted the timeframe: a supported token has
\* given its pair of timeframe_map, a positive compression and a known period,
\* whatever the handler and the other parameters; any other token, case
\* variants included, has ended the request with 422, without a pair and
\* without a fetch; and the pairs of 1m and 1M differ.
C18_TranslateExact ==
    /\ (Converted /\ http.timeframe \in SupportedTimeframes) =>
           /\ <<http.compression, http.period>> = timeframe_map[http.timeframe]
           /\ http.compression >= 1 /\ http.period \in Periods
           /\ http.status_code # 422
    /\ (Converted /\ http.timeframe \notin SupportedTimeframes) =>
           /\ http.pc = "done" /\ http.status_code = 422
           /\ http.compression = 0 /\ http.period = ""
           /\ "fetch" \notin Range(http.calls)
    /\ timeframe_map["1m"] # timeframe_map["1M"]
    /\ {"1H", "1D"} \cap DOMAIN timeframe_map = {}

C18_Witness ==
    /\ Converted /\ http.timeframe = "1H"
    /\ http.pc = "done" /\ http.status_code = 422

\* length in minutes of the units that have a fixed length
UnitMinutes(period) ==
    CASE period = "minutes" -> 1
      [] period = "hours" -> 60
      [] period = "days" -> 1440
      [] period = "weeks" -> 10080

\* C19: the window of the recent-candles handler ends at now and starts
\* compression*limit units of the period before now (calendar months for
\* "months"); for timeframe 1h and limit 24 it is exactly 24 hours long; for
\* a period the handler does not know it is the 24 hours before now; the
\* start is always before the end.
C19_RecentWindow ==
    (http.pc = "done" /\ http.now # <<>> /\ http.fromdate # <<>>) =>
        LET now == http.now[1]
            from == http.fromdate[1]
            n == http.compression * http.limit
        IN  /\ http.todate = <<now>>
            /\ http.period \in Periods \ {"months"} =>
                   /\ from.months = now.months
                   /\ now.minutes - from.minutes = n * UnitMinutes(http.period)
            /\ http.period = "months" =>
                   /\ now.months - from.months = n
                   /\ from.minutes = now.minutes
            /\ http.period \notin Periods =>
                   /\ from.months = now.months
                   /\ now.minutes - from.minutes = 24 * 60
            /\ (http.period = "hours" /\ http.compression = 1
                    /\ http.limit = 24) =>
                   now.minutes - from.minutes = 24 * 60
            /\ Before(from, now)

C19_Witness ==
    /\ http.pc = "done" /\ http.fromdate # <<>> /\ http.now # <<>>
    /\ http.period = "hours" /\ http.compression = 1 /\ http.limit = 24

\* C20: when fetch_ohlcv returned a row with a null numeric field to a
\* request with a supported timeframe and timezone-aware instants, the
\* handler answers 200 and every returned row is in the output, with 0.0 in
\* each null field.
C20_NullAsZero ==
    (/\ http.pc = "done" /\ HasNull(http.ohlcv_data)
     /\ http.handler \in RangeHandlers =>
            http.start_time.aware /\ http.end_time.aware)
        => LET kept == IF http.handler = "range" THEN http.ohlcv_data
                       ELSE LastN(http.ohlcv_data, http.limit)
           IN  /\ http.status_code = 200
               /\ Len(http.candles_data) = Len(kept)
               /\ \A i \in 1..Len(kept), f \in NumericFields :
                      kept[i][f] = NULL => http.candles_data[i][f] = Zero

\* the handlers that take a limit and trim the storage result to it
LimitHandlers == {"recent", "timeseries"}

\* the output row is the storage row, field by field (None given as 0.0)
SameRow(out, row) ==
    \A f \in NumericFields :
        out[f] = IF row[f] = NULL THEN Zero ELSE row[f]

\* C21: when a handler that takes a limit L returns its response for a
\* storage result of n rows, the response has min(L, n) rows, and these are
\* the last min(L, n) rows of the storage result in the storage's order.
C21_TailTrim ==
    (/\ http.handler \in LimitHandlers
     /\ http.pc = "done" /\ http.status_code = 200)
        => LET n == Len(http.ohlcv_data)
               m == IF http.limit < n THEN http.limit ELSE n
           IN  /\ Len(http.candles_data) = m
               /\ \A i \in 1..m :
                      SameRow(http.candles_data[i],
                              http.ohlcv_data[n - m + i])

C21_Witness ==
    /\ http.handler \in LimitHandlers
    /\ http.pc = "done" /\ http.status_code = 200
    /\ http.limit = 1 /\ Len(http.ohlcv_data) = 2
    /\ http.ohlcv_data[1] # http.ohlcv_data[2]

\* C22: a trade handler whose read call raised ProgrammingError is answered
\* with 404, and one whose read call raised anything else with 500, after
\* the request has gone through get_trade_repository.
C22_MissingSeriesIs404 ==
    (dep.kind = "trade" /\ dep.pc = "done" /\ dep.read # "none") =>
        /\ dep.read = "ProgrammingError" => dep.status_code = 404
        /\ dep.read = "Exception" => dep.status_code = 500

\* C23: a dependency awaits __aexit__ at most once, and when it is over
\* exactly once for a repository whose __aenter__ was attempted (entry
\* failed, handler returned, handler raised); without a repository
\* (validation or constructor failed) never; an exception of __aexit__ does
\* not change the answer of the request.
C23_ExitExactlyOnce ==
    /\ Count(dep.calls, "aexit") <= Count(dep.calls, "aenter")
    /\ Count(dep.calls, "aenter") <= 1
    /\ dep.pc = "done" =>
           Count(dep.calls, "aexit") = Count(dep.calls, "aenter")
    /\ dep.repo = <<>> => dep.calls = <<>>
    /\ (dep.pc = "done" /\ dep.exit = "Exception") =>
           dep.status_code = IF dep.pending = "none"
                             THEN status_of(dep.raised) ELSE 500

C23_Witness ==
    /\ dep.pc = "done" /\ dep.read = "none"
    /\ dep.calls = <<"aenter", "aexit">> /\ dep.exit = "Exception"

\* None, empty or whitespace-only
Blank(x) == x \in {NULL, "", " "}

\* C24: a dependency called with a blank exchange or symbol is over at once
\* with 422, "Exchange cannot be empty" when the exchange is blank and
\* "Symbol cannot be empty" otherwise, without a repository and without a
\* call on one.
C24_BlankArgumentsRejected ==
    (dep.kind \in DepKinds /\ (Blank(dep.exchange) \/ Blank(dep.symbol))) =>
        /\ dep.pc = "done" /\ dep.status_code = 422
        /\ dep.detail = IF Blank(dep.exchange)
                        THEN "Exchange cannot be empty"
                        ELSE "Symbol cannot be empty"
        /\ dep.repo = <<>> /\ dep.calls = <<>>

C24_Witness ==
    /\ dep.kind \in DepKinds /\ dep.pc = "done"
    /\ Blank(dep.exchange) /\ Blank(dep.symbol) /\ dep.status_code = 422

\* C25: every repository a dependency constructs is constructed from the
\* exchange and the symbol in production mode (test flag off).
C25_ProductionMode ==
    dep.repo # <<>> =>
        dep.repo[1] = [exchange |-> dep.exchange, symbol |-> dep.symbol,
                       test |-> FALSE]

\* C26: an application composed from gateway.get_routers() includes the
\* same six routers as one composed from get_all_routers(), so every request
\* for a candle or timeseries path reaches its handler.
C26_GatewayRoutersComplete ==
    /\ Range(http.routers) =
           {"trades_router", "candles_router", "timeseries_router",
            "websocket_router", "exchanges_router", "symbols_router"}
    /\ http.path \in Handlers => http.handler = http.path

\* C27: every key of the registry is the key of a request whose timeframe
\* is a value of TimeframeEnum and whose type is ohlcv_live, trade_live or
\* candle_live.
C27_OnlyEnumeratedKeys ==
    \A k \in DOMAIN subscriptions :
        \E t \in RequestFields :
            /\ KeyOf(t) = k
            /\ t[3] \in TimeframeEnum /\ t[4] \in FeedTypes

C28_ErrorFrameRaisedAsDocumented ==
    (/\ sdk.pc = "done"
     /\ sdk.message # <<>>
     /\ sdk.message[1].type = "error"
     /\ \E w \in {"exchange", "symbol", "timeframe"} :
            Mentions(sdk.message[1].message, w))
        => sdk.raised = error_type(sdk.message[1].message)

\* C30: every period of timeframe_map is one of minutes, hours, days, weeks,
\* months; so once the recent-candles handler has computed its window for a
\* request whose timeframe was accepted, the period is one of the five, the
\* window starts compression*limit units of the period before now, and it is
\* the 24 hours before now only when that product is 24 hours or one day.
C30_FallbackUnreachable ==
    /\ \A t \in DOMAIN timeframe_map : timeframe_map[t][2] \in Periods
    /\ (http.handler = "recent" /\ http.now # <<>>) =>
           LET now == http.now[1]
               n == http.compression * http.limit
           IN  /\ http.timeframe \in SupportedTimeframes
               /\ http.period \in Periods
               /\ http.fromdate = <<arrow_shift(now, http.period, -n)>>
               /\ http.fromdate = <<arrow_shift(now, "hours", -24)>> =>
                      \/ http.period = "hours" /\ n = 24
                      \/ http.period = "days" /\ n = 1

\* a recent-candles request for weekly candles was answered
C30_Witness ==
    /\ http.handler = "recent" /\ http.now # <<>>
    /\ http.pc = "done" /\ http.status_code = 200
    /\ http.period = "weeks" /\ http.limit = MaxLimit

====
